---- MODULE Spec2Model ----
(***************************************************************************)
(* A model of coinmarket_service/server.py: the module-level credential    *)
(* check, the two upstream fetches (get_currency_listings, get_quotes) and *)
(* the four protocol handlers the MCP runtime dispatches to.               *)
(*                                                                         *)
(* Python values are modelled as follows.                                  *)
(*   - an optional value (str | None, dict | None) is a sequence of length *)
(*     at most one: <<>> is None, <<v>> is the value v;                    *)
(*   - a dict of strings is a set of <<key, value>> pairs with unique keys;*)
(*   - a text (str holding JSON) is a sequence of lexical tokens;          *)
(*   - a parsed JSON value is a record [t |-> type tag, v |-> payload].    *)
(***************************************************************************)
EXTENDS Integers, Sequences, FiniteSets, TLC

\* ------------------------------------------------------------------ bounds

\* Number of requests the protocol runtime may have in flight at once.
MaxReqs == 2
\* Longest query string (number of key=value pairs) of a resource URI.
MaxQuery == 2

\* ------------------------------------------------------- optional values

None == <<>>
Some(v) == <<v>>
IsNone(o) == o = <<>>
\* Python truthiness of a str | None: None and "" are falsy.
Truthy(o) == o # <<>> /\ o[1] # ""

\* dict.get(key): the value under key, or None.
DictGet(d, key) ==
  IF \E p \in d : p[1] = key
  THEN Some((CHOOSE p \in d : p[1] = key)[2])
  ELSE None

\* d[key] = value on a dict held as a set of pairs.
DictSet(d, key, value) == {p \in d : p[1] # key} \cup {<<key, value>>}

\* ------------------------------------------------------------ JSON texts

\* Whitespace tokens json.loads skips between the tokens of a document.
WS == {" ", "\n"}

\* String literals as they appear in a text, and the str each decodes to.
\* "\/" is an escape json.loads decodes to "/" and json.dumps never emits.
StringLiterals == {"\"data\"", "\"id\"", "\"a/b\"", "\"a\\/b\""}

scanstring(tok) ==
  CASE tok = "\"data\"" -> "data"
    [] tok = "\"id\"" -> "id"
    [] tok = "\"a/b\"" -> "a/b"
    [] tok = "\"a\\/b\"" -> "a/b"

encode_basestring(s) ==
  CASE s = "data" -> "\"data\""
    [] s = "id" -> "\"id\""
    [] s = "a/b" -> "\"a/b\""

\* Number literals: an integer literal parses to an int, a literal with a
\* fraction or an exponent to a float; floats are written back by repr.
IntLiterals == {"1", "2"}
FloatLiterals == {"1.0", "1E0"}

JNull == [t |-> "null", v |-> <<>>]
JInt(n) == [t |-> "int", v |-> <<n>>]
JFloat(n) == [t |-> "float", v |-> <<n>>]
JStr(s) == [t |-> "str", v |-> <<s>>]
\* A list holds its items in order; a dict holds <<key, value>> pairs in
\* insertion order, keys unique.
JList(items) == [t |-> "list", v |-> items]
JDict(pairs) == [t |-> "dict", v |-> pairs]

parse_int(tok) == IF tok = "1" THEN JInt(1) ELSE JInt(2)
parse_float(tok) == JFloat(1)
int_repr(n) == IF n = 1 THEN "1" ELSE "2"
float_repr(n) == "1.0"

\* dict(pairs) semantics for a repeated key: the key keeps the position of
\* its first occurrence and takes the value of its last.
OrderedSet(pairs, key, value) ==
  IF \E i \in 1..Len(pairs) : pairs[i][1] = key
  THEN [i \in 1..Len(pairs) |->
          IF pairs[i][1] = key THEN <<key, value>> ELSE pairs[i]]
  ELSE Append(pairs, <<key, value>>)

RECURSIVE SkipWS(_, _)
SkipWS(s, i) ==
  IF i <= Len(s) /\ s[i] \in WS THEN SkipWS(s, i + 1) ELSE i

ParseFail == [ok |-> FALSE, val |-> JNull, end |-> 0]
ParseOk(val, end) == [ok |-> TRUE, val |-> val, end |-> end]

RECURSIVE ParseValue(_, _)
RECURSIVE ParseArray(_, _, _)
RECURSIVE ParseObject(_, _, _)

\* One JSON value starting at or after position i of the token sequence s.
ParseValue(s, i) ==
  LET j == SkipWS(s, i) IN
  IF j > Len(s) THEN ParseFail
  ELSE IF s[j] \in StringLiterals THEN ParseOk(JStr(scanstring(s[j])), j + 1)
  ELSE IF s[j] \in IntLiterals THEN ParseOk(parse_int(s[j]), j + 1)
  ELSE IF s[j] \in FloatLiterals THEN ParseOk(parse_float(s[j]), j + 1)
  ELSE IF s[j] = "null" THEN ParseOk(JNull, j + 1)
  ELSE IF s[j] = "[" THEN
    LET k == SkipWS(s, j + 1) IN
    IF k <= Len(s) /\ s[k] = "]" THEN ParseOk(JList(<<>>), k + 1)
    ELSE ParseArray(s, j + 1, <<>>)
  ELSE IF s[j] = "{" THEN
    LET k == SkipWS(s, j + 1) IN
    IF k <= Len(s) /\ s[k] = "}" THEN ParseOk(JDict(<<>>), k + 1)
    ELSE ParseObject(s, j + 1, <<>>)
  ELSE ParseFail

\* The items of a non-empty array, after "[" or ",", up to the closing "]".
ParseArray(s, i, acc) ==
  LET item == ParseValue(s, i) IN
  IF ~item.ok THEN ParseFail
  ELSE
    LET k == SkipWS(s, item.end) IN
    IF k > Len(s) THEN ParseFail
    ELSE IF s[k] = "," THEN ParseArray(s, k + 1, Append(acc, item.val))
    ELSE IF s[k] = "]" THEN ParseOk(JList(Append(acc, item.val)), k + 1)
    ELSE ParseFail

\* The members of a non-empty object, after "{" or ",", up to the "}".
ParseObject(s, i, acc) ==
  LET j == SkipWS(s, i) IN
  IF j > Len(s) \/ s[j] \notin StringLiterals THEN ParseFail
  ELSE
    LET c == SkipWS(s, j + 1) IN
    IF c > Len(s) \/ s[c] # ":" THEN ParseFail
    ELSE
      LET member == ParseValue(s, c + 1) IN
      IF ~member.ok THEN ParseFail
      ELSE
        LET k == SkipWS(s, member.end)
            next == OrderedSet(acc, scanstring(s[j]), member.val) IN
        IF k > Len(s) THEN ParseFail
        ELSE IF s[k] = "," THEN ParseObject(s, k + 1, next)
        ELSE IF s[k] = "}" THEN ParseOk(JDict(next), k + 1)
        ELSE ParseFail

\* json.loads(text): the parsed document, or JSONDecodeError (ok = FALSE)
\* when the text is no JSON value or is followed by anything but whitespace.
json_loads(text) ==
  LET r == ParseValue(text, 1) IN
  IF r.ok /\ SkipWS(text, r.end) > Len(text)
  THEN [ok |-> TRUE, val |-> r.val]
  ELSE [ok |-> FALSE, val |-> JNull]

RECURSIVE Spaces(_)
Spaces(n) == IF n = 0 THEN <<>> ELSE <<" ">> \o Spaces(n - 1)

\* The newline and indentation json.dumps writes at nesting depth `level`.
Indent == 2
NewlineIndent(level) == <<"\n">> \o Spaces(Indent * level)

RECURSIVE DumpValue(_, _)
RECURSIVE DumpItems(_, _, _)
RECURSIVE DumpMembers(_, _, _)

DumpValue(val, level) ==
  CASE val.t = "null" -> <<"null">>
    [] val.t = "int" -> <<int_repr(val.v[1])>>
    [] val.t = "float" -> <<float_repr(val.v[1])>>
    [] val.t = "str" -> <<encode_basestring(val.v[1])>>
    [] val.t = "list" ->
         IF val.v = <<>> THEN <<"[", "]">>
         ELSE <<"[">> \o DumpItems(val.v, 1, level + 1)
                \o NewlineIndent(level) \o <<"]">>
    [] val.t = "dict" ->
         IF val.v = <<>> THEN <<"{", "}">>
         ELSE <<"{">> \o DumpMembers(val.v, 1, level + 1)
                \o NewlineIndent(level) \o <<"}">>

DumpItems(items, i, level) ==
  IF i > Len(items) THEN <<>>
  ELSE NewlineIndent(level) \o DumpValue(items[i], level)
         \o (IF i < Len(items) THEN <<",">> ELSE <<>>)
         \o DumpItems(items, i + 1, level)

DumpMembers(pairs, i, level) ==
  IF i > Len(pairs) THEN <<>>
  ELSE NewlineIndent(level) \o <<encode_basestring(pairs[i][1]), ":", " ">>
         \o DumpValue(pairs[i][2], level)
         \o (IF i < Len(pairs) THEN <<",">> ELSE <<>>)
         \o DumpMembers(pairs, i + 1, level)

\* json.dumps(data, indent=2)
json_dumps(data) == DumpValue(data, 0)

\* Deep equality of two parsed documents, as Python's == on the values
\* json.loads builds: lists by position, dicts as unordered mappings.
RECURSIVE DeepEquals(_, _)
DeepEquals(a, b) ==
  /\ a.t = b.t
  /\ CASE a.t = "list" ->
            /\ Len(a.v) = Len(b.v)
            /\ \A i \in 1..Len(a.v) : DeepEquals(a.v[i], b.v[i])
       [] a.t = "dict" ->
            /\ {a.v[i][1] : i \in 1..Len(a.v)} = {b.v[i][1] : i \in 1..Len(b.v)}
            /\ \A i \in 1..Len(a.v) : \A j \in 1..Len(b.v) :
                 a.v[i][1] = b.v[j][1] => DeepEquals(a.v[i][2], b.v[j][2])
       [] OTHER -> a.v = b.v

\* ------------------------------------------------------------ the inputs

\* Values of the COINMARKET_API_KEY environment variable after load_dotenv:
\* unset, set to the empty string, set to a key.
EnvValues == {None, Some(""), Some("secret-key")}

\* Resource URIs a client may ask for: [scheme, host, path, query], the
\* query a sequence of <<key, value>> pairs as AnyUrl.query_params yields.
Schemes == {"coinmarket", "http"}
Hosts == {"", "cryptocurrency"}
Paths == {"/listings", "/quotes", "/other"}
QueryKeys == {"slug", "symbol"}
QueryValues == {"", "bitcoin", "ethereum"}
QueryPairs == QueryKeys \X QueryValues
Queries == UNION {[1..n -> QueryPairs] : n \in 0..MaxQuery}
Uri(scheme, host, path, query) ==
  [scheme |-> scheme, host |-> host, path |-> path, query |-> query]
URIs == {Uri(s, h, p, q) : s \in Schemes, h \in Hosts, p \in Paths, q \in Queries}

\* Tool names and arguments (dict | None) a client may call with.
ToolNames == {"get_currency_listings", "get_quotes", "nonexistent_tool"}
Dicts ==
  UNION {{ {<<k, f[k]>> : k \in K} : f \in [K -> QueryValues] } : K \in SUBSET QueryKeys}
Arguments == {None} \cup {Some(d) : d \in Dicts}

\* What one requests.get can end in: a transport fault, or a final HTTP
\* response with a status and a body text.
Statuses == {200, 300, 401, 429, 500}
Bodies ==
  { <<"{", "\"data\"", ":", "[", "1", ",", "2", "]", "}">>,
    <<"{", " ", "\"data\"", ":", " ", "[", "{", "\"id\"", ":", "1", "}", ",",
      "\n", "{", "\"id\"", ":", "1E0", ",", "\"a\\/b\"", ":", "null", "}", "]",
      "}", "\n">>,
    <<"{", "\"id\"", ":", "1", ",", "\"data\"", ":", "[", "]", ",",
      "\"id\"", ":", "\"a\\/b\"", "}">>,
    <<"[", "{", "}", ",", "1.0", "]">>,
    <<"<html>">>,
    <<"{", "\"data\"", ":">>,
    <<>> }
Response(fault, status, text) ==
  [fault |-> fault, status |-> status, text |-> text]
NoResponse == Response(FALSE, 0, <<>>)
TransportFault == Response(TRUE, 0, <<>>)
Responses ==
  {TransportFault} \cup {Response(FALSE, s, b) : s \in Statuses, b \in Bodies}

\* The narrower inputs of the interleaved specification.
ConcURIs ==
  { Uri("coinmarket", "cryptocurrency", "/listings", <<>>),
    Uri("coinmarket", "", "/quotes", <<<<"slug", "bitcoin">>>>),
    Uri("http", "cryptocurrency", "/listings", <<>>) }
ConcCalls ==
  { <<"get_currency_listings", None>>,
    <<"get_quotes", None>>,
    <<"get_quotes", Some({})>>,
    <<"get_quotes", Some({<<"symbol", "ethereum">>})>>,
    <<"nonexistent_tool", Some({})>> }
ConcResponses ==
  { TransportFault,
    Response(FALSE, 500, <<"<html>">>),
    Response(FALSE, 200, <<"{", "\"data\"", ":", "[", "1", ",", "2", "]", "}">>),
    Response(FALSE, 200, <<"[", "{", "}", ",", "1.0", "]">>) }

\* -------------------------------------------------------------- the state

VARIABLES
  env,        \* the COINMARKET_API_KEY environment variable (str | None)
  phase,      \* "import" | "failed" | "serving"
  API_KEY,    \* the module global API_KEY (str | None)
  pc,         \* per request slot: "idle" | "awaiting" | "done"
  req,        \* per slot: the request being handled
  calls,      \* per slot: the upstream calls (requests.get) the handler made
  response,   \* per slot: what the handler's requests.get ended in
  outcomes    \* per slot: the results returned and errors raised

vars == <<env, phase, API_KEY, pc, req, calls, response, outcomes>>

Slots == 1..MaxReqs
NoRequest == [kind |-> "none"]

Returned(value) == [kind |-> "result", value |-> value]
Raised(type, message) == [kind |-> "error", type |-> type, message |-> message]

Init ==
  /\ env \in EnvValues
  /\ phase = "import"
  /\ API_KEY = None
  /\ pc = [r \in Slots |-> "idle"]
  /\ req = [r \in Slots |-> NoRequest]
  /\ calls = [r \in Slots |-> <<>>]
  /\ response = [r \in Slots |-> NoResponse]
  /\ outcomes = [r \in Slots |-> <<>>]

\* ------------------------------------------------------- module import

\* Mutation: `if API_KEY is None`, an empty key is accepted.
ImportModule_none_only ==
  /\ phase = "import"
  /\ API_KEY' = env
  /\ phase' = IF IsNone(env) THEN "failed" ELSE "serving"
  /\ UNCHANGED <<env, pc, req, calls, response, outcomes>>

\* API_KEY = os.getenv(...); if not API_KEY: raise ValueError(...)
ImportModule ==
  /\ phase = "import"
  /\ API_KEY' = env
  /\ phase' = IF ~Truthy(env) THEN "failed" ELSE "serving"
  /\ UNCHANGED <<env, pc, req, calls, response, outcomes>>

\* ------------------------------------------------------ upstream client

Headers ==
  {<<"Accepts", "application/json">>, <<"X-CMC_PRO_API_KEY", API_KEY>>}

ListingsUrl == "https://pro-api.coinmarketcap.com/v1/cryptocurrency/listings/latest"
QuotesUrl == "https://pro-api.coinmarketcap.com/v1/cryptocurrency/quotes/latest"

ListingsParameters ==
  {<<"start", "1">>, <<"limit", "5">>, <<"convert", "USD">>}

\* Mutation: the symbol is stored under the key 'slug'.
QuotesParameters_symbol_as_slug(slug, symbol) ==
  LET base == {<<"convert", "USD">>}
      withSlug == IF Truthy(slug) THEN DictSet(base, "slug", slug[1]) ELSE base
  IN IF Truthy(symbol) THEN DictSet(withSlug, "slug", symbol[1]) ELSE withSlug

\* Mutation: `parameters` is one module-level dict, so the slug and symbol
\* of the calls in flight are still in it.
QuotesParameters_shared_dict(slug, symbol) ==
  LET left == UNION {UNION {calls[o][i].params : i \in 1..Len(calls[o])} : o \in Slots}
      base == {<<"convert", "USD">>} \cup {p \in left : p[1] \in {"slug", "symbol"}}
      withSlug == IF Truthy(slug) THEN DictSet(base, "slug", slug[1]) ELSE base
  IN IF Truthy(symbol) THEN DictSet(withSlug, "symbol", symbol[1]) ELSE withSlug

\* parameters = {'convert': 'USD'}; if slug: ...; if symbol: ...
QuotesParameters(slug, symbol) ==
  LET base == {<<"convert", "USD">>}
      withSlug == IF Truthy(slug) THEN DictSet(base, "slug", slug[1]) ELSE base
  IN IF Truthy(symbol) THEN DictSet(withSlug, "symbol", symbol[1]) ELSE withSlug

UpstreamCall(url, params) ==
  [url |-> url, headers |-> Headers, params |-> params]

\* Mutation: only client errors raise.
raise_for_status_4xx_only(resp) == 400 <= resp.status /\ resp.status < 500

\* response.raise_for_status(): HTTPError for a 4xx or 5xx status.
raise_for_status(resp) == 400 <= resp.status /\ resp.status < 600

\* The rest of get_currency_listings / get_quotes once requests.get ended:
\* the parsed body, or the exception that leaves the function with str(e).
FetchReturn(resp) ==
  IF resp.fault
  THEN [raised |-> TRUE, data |-> JNull, msg |-> "ConnectionError"]
  ELSE IF raise_for_status(resp)
  THEN [raised |-> TRUE, data |-> JNull,
        msg |-> ToString(resp.status) \o " Error for url"]
  ELSE LET data == json_loads(resp.text) IN
       IF data.ok
       THEN [raised |-> FALSE, data |-> data.val, msg |-> ""]
       ELSE [raised |-> TRUE, data |-> JNull, msg |-> "JSONDecodeError"]

\* ------------------------------------------------------------- handlers

\* Slot bookkeeping shared by the handlers: the request is taken up ...
Begin(r, request) ==
  /\ phase = "serving"
  /\ pc[r] = "idle"
  /\ req' = [req EXCEPT ![r] = request]

\* ... it ends at once with a result or an error ...
Finish(r, outcome) ==
  /\ pc' = [pc EXCEPT ![r] = "done"]
  /\ outcomes' = [outcomes EXCEPT ![r] = Append(@, outcome)]

\* Mutation: a second requests.get is made for the same request.
Await_retry(r, call) ==
  /\ pc' = [pc EXCEPT ![r] = "awaiting"]
  /\ calls' = [calls EXCEPT ![r] = Append(Append(@, call), call)]

\* ... or it suspends in requests.get.
Await(r, call) ==
  /\ pc' = [pc EXCEPT ![r] = "awaiting"]
  /\ calls' = [calls EXCEPT ![r] = Append(@, call)]

ListedResources ==
  << [uri |-> Uri("coinmarket", "cryptocurrency", "/listings", <<>>),
      name |-> "Latest cryptocurrency listings from coinmarket",
      description |-> "Cryptocurrency listings",
      mimeType |-> "application/json"],
     [uri |-> Uri("coinmarket", "cryptocurrency", "/quotes", <<>>),
      name |-> "Cryptocurrency quotes",
      description |-> "Cryptocurrency quotes",
      mimeType |-> "application/json"] >>

ListedTools ==
  << [name |-> "get_currency_listings",
      description |-> "Get latest cryptocurrency listings",
      properties |-> {}, required |-> {}],
     [name |-> "get_quotes",
      description |-> "Get cryptocurrency quotes",
      properties |-> {"slug", "symbol"}, required |-> {}] >>

handle_list_resources(r) ==
  /\ Begin(r, [kind |-> "list_resources"])
  /\ Finish(r, Returned(ListedResources))
  /\ UNCHANGED <<env, phase, API_KEY, calls, response>>

handle_list_tools(r) ==
  /\ Begin(r, [kind |-> "list_tools"])
  /\ Finish(r, Returned(ListedTools))
  /\ UNCHANGED <<env, phase, API_KEY, calls, response>>

\* Mutation: the path is matched by prefix, /listings... and anything else
\* that is not /quotes reads the listings.
ReadRoute_listings_default(uri) ==
  IF uri.scheme # "coinmarket" THEN "unsupported_scheme"
  ELSE IF uri.path = "/quotes" THEN "quotes"
  ELSE "listings"

\* Mutation: the scheme is checked only in the default case of the match.
ReadRoute_path_first(uri) ==
  IF uri.path = "/listings" THEN "listings"
  ELSE IF uri.path = "/quotes" THEN "quotes"
  ELSE IF uri.scheme # "coinmarket" THEN "unsupported_scheme"
  ELSE "unsupported_path"

\* Where handle_read_resource goes: the scheme check, then match uri.path.
ReadRoute(uri) ==
  IF uri.scheme # "coinmarket" THEN "unsupported_scheme"
  ELSE IF uri.path = "/listings" THEN "listings"
  ELSE IF uri.path = "/quotes" THEN "quotes"
  ELSE "unsupported_path"

\* {qp[0]: qp[1] for qp in uri.query_params()}: a later pair overwrites an
\* earlier one with the same key.
QueryDict(query) ==
  {query[i] : i \in {i \in 1..Len(query) :
                       \A j \in (i + 1)..Len(query) : query[j][1] # query[i][1]}}

\* slug and symbol as handle_read_resource reads them from the query.
ReadQuoteArgs(uri) ==
  [slug |-> DictGet(QueryDict(uri.query), "slug"),
   symbol |-> DictGet(QueryDict(uri.query), "symbol")]

handle_read_resource(r, uri) ==
  /\ Begin(r, [kind |-> "read_resource", uri |-> uri])
  /\ LET route == ReadRoute(uri) IN
     CASE route = "unsupported_scheme" ->
            /\ Finish(r, Raised("ValueError", "Unsupported scheme: " \o uri.scheme))
            /\ UNCHANGED calls
       [] route = "listings" ->
            /\ Await(r, UpstreamCall(ListingsUrl, ListingsParameters))
            /\ UNCHANGED outcomes
       [] route = "quotes" ->
            /\ LET a == ReadQuoteArgs(uri) IN
               Await(r, UpstreamCall(QuotesUrl, QuotesParameters(a.slug, a.symbol)))
            /\ UNCHANGED outcomes
       [] route = "unsupported_path" ->
            /\ Finish(r, Raised("ValueError", "Unsupported path: " \o uri.path))
            /\ UNCHANGED calls
  /\ UNCHANGED <<env, phase, API_KEY, response>>

\* The message prefix of the RuntimeError each path of handle_read_resource
\* wraps a failure in.
ReadErrorPrefix(path) ==
  IF path = "/listings" THEN "Failed to fetch listings data: "
  ELSE "Failed to fetch quotes data: "

\* handle_read_resource from the moment its requests.get ends.
read_resource_resume(r, resp) ==
  /\ pc[r] = "awaiting"
  /\ req[r].kind = "read_resource"
  /\ response' = [response EXCEPT ![r] = resp]
  /\ LET f == FetchReturn(resp) IN
     IF f.raised
     THEN Finish(r, Raised("RuntimeError", ReadErrorPrefix(req[r].uri.path) \o f.msg))
     ELSE Finish(r, Returned(json_dumps(f.data)))
  /\ UNCHANGED <<env, phase, API_KEY, req, calls>>

\* Mutation: no default case, an unknown name falls into get_quotes.
ToolRoute_no_default(name) ==
  IF name = "get_currency_listings" THEN "listings" ELSE "quotes"

\* Where handle_call_tool goes: match name.
ToolRoute(name) ==
  IF name = "get_currency_listings" THEN "listings"
  ELSE IF name = "get_quotes" THEN "quotes"
  ELSE "unsupported_tool"

\* Mutation: only None counts as "no arguments" and then a default slug is
\* used; an empty mapping goes through .get.
ToolQuoteArgs_default_slug(arguments) ==
  IF IsNone(arguments)
  THEN [slug |-> Some("bitcoin"), symbol |-> None]
  ELSE [slug |-> DictGet(arguments[1], "slug"),
        symbol |-> DictGet(arguments[1], "symbol")]

\* slug and symbol as handle_call_tool reads them from arguments.
ToolQuoteArgs(arguments) ==
  IF IsNone(arguments) \/ arguments[1] = {}
  THEN [slug |-> None, symbol |-> None]
  ELSE [slug |-> DictGet(arguments[1], "slug"),
        symbol |-> DictGet(arguments[1], "symbol")]

handle_call_tool(r, name, arguments) ==
  /\ Begin(r, [kind |-> "call_tool", name |-> name, arguments |-> arguments])
  /\ LET route == ToolRoute(name) IN
     CASE route = "listings" ->
            /\ Await(r, UpstreamCall(ListingsUrl, ListingsParameters))
            /\ UNCHANGED outcomes
       [] route = "quotes" ->
            /\ LET a == ToolQuoteArgs(arguments) IN
               Await(r, UpstreamCall(QuotesUrl, QuotesParameters(a.slug, a.symbol)))
            /\ UNCHANGED outcomes
       [] route = "unsupported_tool" ->
            /\ Finish(r, Raised("ValueError", "Unsupported tool: " \o name))
            /\ UNCHANGED calls
  /\ UNCHANGED <<env, phase, API_KEY, response>>

\* Mutation: only the document's "data" member is returned.
ToolContent_data_only(data) ==
  <<[type |-> "text",
     text |-> json_dumps(IF data.t = "dict" /\ \E i \in 1..Len(data.v) : data.v[i][1] = "data"
                         THEN data.v[CHOOSE i \in 1..Len(data.v) : data.v[i][1] = "data"][2]
                         ELSE data)]>>

\* [types.TextContent(type="text", text=json.dumps(data, indent=2))]
ToolContent(data) == <<[type |-> "text", text |-> json_dumps(data)]>>

\* handle_call_tool from the moment its requests.get ends.
call_tool_resume(r, resp) ==
  /\ pc[r] = "awaiting"
  /\ req[r].kind = "call_tool"
  /\ response' = [response EXCEPT ![r] = resp]
  /\ LET f == FetchReturn(resp) IN
     IF f.raised
     THEN Finish(r, Raised("RuntimeError", "Failed to fetch data: " \o f.msg))
     ELSE Finish(r, Returned(ToolContent(f.data)))
  /\ UNCHANGED <<env, phase, API_KEY, req, calls>>

\* server.run sends the handler's result or error back and forgets the
\* request.
Respond(r) ==
  /\ pc[r] = "done"
  /\ pc' = [pc EXCEPT ![r] = "idle"]
  /\ req' = [req EXCEPT ![r] = NoRequest]
  /\ calls' = [calls EXCEPT ![r] = <<>>]
  /\ response' = [response EXCEPT ![r] = NoResponse]
  /\ outcomes' = [outcomes EXCEPT ![r] = <<>>]
  /\ UNCHANGED <<env, phase, API_KEY>>

\* ------------------------------------------------------- specifications

\* One request at a time per protocol session.
Alone(r) == \A o \in Slots : pc[o] = "idle"

Next ==
  \/ ImportModule
  \/ \E r \in Slots : Alone(r) /\ handle_list_resources(r)
  \/ \E r \in Slots : Alone(r) /\ handle_list_tools(r)
  \/ \E r \in Slots : Alone(r) /\ \E uri \in URIs : handle_read_resource(r, uri)
  \/ \E r \in Slots :
       Alone(r) /\ \E name \in ToolNames, arguments \in Arguments :
                     handle_call_tool(r, name, arguments)
  \/ \E r \in Slots, resp \in Responses : read_resource_resume(r, resp)
  \/ \E r \in Slots, resp \in Responses : call_tool_resume(r, resp)
  \/ \E r \in Slots : Respond(r)

Spec == Init /\ [][Next]_vars

\* Requests pipelined by the runtime and handled interleaved.
NextConcurrent ==
  \/ ImportModule
  \/ \E r \in Slots : handle_list_resources(r)
  \/ \E r \in Slots : handle_list_tools(r)
  \/ \E r \in Slots, uri \in ConcURIs : handle_read_resource(r, uri)
  \/ \E r \in Slots, c \in ConcCalls : handle_call_tool(r, c[1], c[2])
  \/ \E r \in Slots, resp \in ConcResponses : read_resource_resume(r, resp)
  \/ \E r \in Slots, resp \in ConcResponses : call_tool_resume(r, resp)
  \/ \E r \in Slots : Respond(r)

SpecConcurrent == Init /\ [][NextConcurrent]_vars

\* ----------------------------------------------------- reading the state

\* The request in slot r went to the upstream API.
ReachedUpstream(r) == calls[r] # <<>>

IsRead(r) == req[r].kind = "read_resource"
IsCall(r) == req[r].kind = "call_tool"
IsCoinmarketRead(r) == IsRead(r) /\ req[r].uri.scheme = "coinmarket"
IsQuotesRequest(r) ==
  \/ IsCoinmarketRead(r) /\ req[r].uri.path = "/quotes"
  \/ IsCall(r) /\ req[r].name = "get_quotes"

Is2xx(resp) == ~resp.fault /\ 200 <= resp.status /\ resp.status <= 299
Is4xx5xx(resp) == ~resp.fault /\ 400 <= resp.status /\ resp.status <= 599

\* The cause an error message must carry for a failed upstream attempt.
UpstreamCause(resp) ==
  IF resp.fault THEN "ConnectionError"
  ELSE ToString(resp.status) \o " Error for url"

ErrorPrefixes ==
  {"Failed to fetch listings data: ", "Failed to fetch quotes data: ",
   "Failed to fetch data: "}

EndedInError(r) ==
  /\ Len(outcomes[r]) = 1
  /\ outcomes[r][1].kind = "error"

\* The value the request in slot r supplies for slug or symbol: from the
\* query string (the last pair with that key) or from the arguments.
Supplied(r, key) ==
  IF IsRead(r)
  THEN LET q == req[r].uri.query
           at == {i \in 1..Len(q) : q[i][1] = key} IN
       IF at = {} THEN None
       ELSE Some(q[CHOOSE i \in at : \A j \in at : j <= i][2])
  ELSE IF IsNone(req[r].arguments) THEN None
  ELSE LET hit == {p \in req[r].arguments[1] : p[1] = key} IN
       IF hit = {} THEN None ELSE Some((CHOOSE p \in hit : TRUE)[2])

HasParam(r, key) == \E p \in calls[r][1].params : p[1] = key

\* ------------------------------------------------------------------ C1

C2_UnknownToolRejected ==
  \A r \in Slots :
    (IsCall(r) /\ req[r].name \notin {"get_currency_listings", "get_quotes"})
      => /\ pc[r] = "done"
         /\ calls[r] = <<>>
         /\ outcomes[r] =
              <<Raised("ValueError", "Unsupported tool: " \o req[r].name)>>

C2_Witness ==
  \E r \in Slots :
    /\ IsCall(r) /\ req[r].name = "nonexistent_tool"
    /\ req[r].arguments = Some({<<"slug", "bitcoin">>})
    /\ pc[r] = "done" /\ calls[r] = <<>> /\ EndedInError(r)

\* ------------------------------------------------------------------ C3

\* C3: a read of a coinmarket URI routes by path alone. /listings makes the
\* listings call and no other, /quotes the quotes call and no other, any
\* other path ends in ValueError "Unsupported path" without a call; a 2xx
\* JSON response is returned as json.dumps(indent=2) of the parsed body,
\* and a failed attempt is wrapped in a RuntimeError whose message names
\* the path's data and the cause.
C3_ReadRoutesByPath ==
  \A r \in Slots :
    IsCoinmarketRead(r) =>
      LET path == req[r].uri.path IN
      /\ path = "/listings" =>
           calls[r] = <<UpstreamCall(ListingsUrl, ListingsParameters)>>
      /\ path = "/quotes" =>
           Len(calls[r]) = 1 /\ calls[r][1].url = QuotesUrl
      /\ path \notin {"/listings", "/quotes"} =>
           /\ pc[r] = "done" /\ calls[r] = <<>>
           /\ outcomes[r] = <<Raised("ValueError", "Unsupported path: " \o path)>>
      /\ (pc[r] = "done" /\ ReachedUpstream(r) /\ Is2xx(response[r])
            /\ json_loads(response[r].text).ok) =>
           outcomes[r] =
             <<Returned(json_dumps(json_loads(response[r].text).val))>>
      /\ (pc[r] = "done" /\ ReachedUpstream(r)
            /\ (response[r].fault \/ Is4xx5xx(response[r]))) =>
           outcomes[r] =
             <<Raised("RuntimeError",
                      (IF path = "/listings"
                       THEN "Failed to fetch listings data: "
                       ELSE "Failed to fetch quotes data: ")
                        \o UpstreamCause(response[r]))>>

C3_Witness ==
  \E r \in Slots :
    /\ IsCoinmarketRead(r) /\ req[r].uri.path = "/listings"
    /\ req[r].uri.host = "" /\ req[r].uri.query = <<<<"slug", "bitcoin">>>>
    /\ pc[r] = "done" /\ Is2xx(response[r])
    /\ Len(outcomes[r]) = 1 /\ outcomes[r][1].kind = "result"
    /\ Len(outcomes[r][1].value) > Len(response[r].text)

\* ------------------------------------------------------------------ C4

\* C4 as stated: the quotes call carries slug (symbol) with the supplied
\* value exactly when the request supplied it, and always convert=USD.
C4_SuppliedIffCarried ==
  \A r \in Slots :
    IsQuotesRequest(r) =>
      /\ Len(calls[r]) = 1
      /\ <<"convert", "USD">> \in calls[r][1].params
      /\ \A key \in {"slug", "symbol"} :
           IF IsNone(Supplied(r, key))
           THEN ~HasParam(r, key)
           ELSE <<key, Supplied(r, key)[1]>> \in calls[r][1].params

\* C4 (amended): the quotes call carries slug (symbol) with the supplied
\* value exactly when the request supplied a non-empty one (for a repeated
\* query key, its last value), always carries convert=USD, and carries
\* nothing else.
C4_NonEmptySuppliedIffCarried ==
  \A r \in Slots :
    IsQuotesRequest(r) =>
      /\ Len(calls[r]) = 1
      /\ <<"convert", "USD">> \in calls[r][1].params
      /\ \A p \in calls[r][1].params : p[1] \in {"convert", "slug", "symbol"}
      /\ \A key \in {"slug", "symbol"} :
           IF IsNone(Supplied(r, key)) \/ Supplied(r, key) = Some("")
           THEN ~HasParam(r, key)
           ELSE /\ <<key, Supplied(r, key)[1]>> \in calls[r][1].params
                /\ \A p \in calls[r][1].params :
                     p[1] = key => p[2] = Supplied(r, key)[1]

\* readResource("coinmarket:///quotes?slug=bitcoin")
C4_Witness ==
  \E r \in Slots :
    /\ req[r] = [kind |-> "read_resource",
                 uri |-> Uri("coinmarket", "", "/quotes", <<<<"slug", "bitcoin">>>>)]
    /\ Len(calls[r]) = 1
    /\ calls[r][1].params = {<<"convert", "USD">>, <<"slug", "bitcoin">>}

\* ------------------------------------------------------------------ C5

EmptyArgsQuotes(r) ==
  IsCall(r) /\ req[r].name = "get_quotes" /\ req[r].arguments \in {None, Some({})}

\* C5: callTool("get_quotes", {}) and callTool("get_quotes", None) make the
\* same upstream call, with neither slug nor symbol, and end in the same
\* outcome for the same upstream response; a key missing from a non-empty
\* arguments mapping is left out of the call and raises nothing.
C5_EmptyAndNoneAlike ==
  /\ \A r \in Slots :
       EmptyArgsQuotes(r) =>
         calls[r] = <<UpstreamCall(QuotesUrl, {<<"convert", "USD">>})>>
  /\ \A r1, r2 \in Slots :
       (EmptyArgsQuotes(r1) /\ EmptyArgsQuotes(r2)
          /\ pc[r1] = "done" /\ pc[r2] = "done" /\ response[r1] = response[r2])
         => outcomes[r1] = outcomes[r2]
  /\ \A r \in Slots :
       (IsCall(r) /\ req[r].name = "get_quotes" /\ ~EmptyArgsQuotes(r)) =>
         \A key \in {"slug", "symbol"} :
           IsNone(Supplied(r, key)) =>
             /\ Len(calls[r]) = 1
             /\ ~HasParam(r, key)
             /\ (pc[r] = "done" /\ Is2xx(response[r])
                   /\ json_loads(response[r].text).ok)
                  => outcomes[r][1].kind = "result"

C5_Witness ==
  \E r1, r2 \in Slots :
    /\ IsCall(r1) /\ req[r1].name = "get_quotes" /\ req[r1].arguments = None
    /\ IsCall(r2) /\ req[r2].name = "get_quotes" /\ req[r2].arguments = Some({})
    /\ pc[r1] = "done" /\ pc[r2] = "done"
    /\ response[r1] = response[r2] /\ Is2xx(response[r1])
    /\ outcomes[r1] = outcomes[r2]
    /\ outcomes[r1][1].kind = "result"

\* ------------------------------------------------------------------ C6

\* C6: for a 2xx listings response whose body is a JSON document D,
\* callTool("get_currency_listings", arguments) returns, whatever the
\* arguments, exactly one text item whose text parses to a document
\* deep-equal to D.
C6_ListingsPassThrough ==
  \A r \in Slots :
    (IsCall(r) /\ req[r].name = "get_currency_listings" /\ pc[r] = "done"
       /\ Is2xx(response[r]) /\ json_loads(response[r].text).ok)
      => /\ Len(outcomes[r]) = 1
         /\ outcomes[r][1].kind = "result"
         /\ LET content == outcomes[r][1].value IN
            /\ Len(content) = 1
            /\ content[1].type = "text"
            /\ json_loads(content[1].text).ok
            /\ DeepEquals(json_loads(content[1].text).val,
                          json_loads(response[r].text).val)

C6_Witness ==
  \E r \in Slots :
    /\ IsCall(r) /\ req[r].name = "get_currency_listings"
    /\ req[r].arguments = Some({<<"slug", "bitcoin">>})
    /\ pc[r] = "done" /\ Is2xx(response[r])
    /\ "\"a\\/b\"" \in {response[r].text[i] : i \in 1..Len(response[r].text)}
    /\ outcomes[r][1].kind = "result"
    /\ outcomes[r][1].value[1].text # response[r].text

\* ------------------------------------------------------------------ C7

\* C7: a read of a URI whose scheme is not "coinmarket" ends at once in
\* ValueError "Unsupported scheme: <scheme>", whatever the path, and makes
\* no upstream call.
C7_SchemeCheckedFirst ==
  \A r \in Slots :
    (IsRead(r) /\ req[r].uri.scheme # "coinmarket")
      => /\ pc[r] = "done"
         /\ calls[r] = <<>>
         /\ outcomes[r] =
              <<Raised("ValueError", "Unsupported scheme: " \o req[r].uri.scheme)>>

C7_Witness ==
  \E r \in Slots :
    /\ IsRead(r) /\ req[r].uri.scheme = "http" /\ req[r].uri.path = "/quotes"
    /\ pc[r] = "done" /\ EndedInError(r)

\* ------------------------------------------------------------------ C8

\* C8: once the module is imported, the process has failed exactly when
\* the API key was unset or empty, a failed process has served nothing,
\* and whenever a request is being served the loaded credential is the
\* non-empty key of the environment.
C8_NoServiceWithoutKey ==
  /\ phase # "import" => (phase = "failed" <=> (IsNone(env) \/ env = Some("")))
  /\ phase # "serving" =>
       \A r \in Slots : pc[r] = "idle" /\ req[r] = NoRequest /\ calls[r] = <<>>
  /\ \A r \in Slots :
       pc[r] # "idle" =>
         /\ ~IsNone(API_KEY) /\ API_KEY[1] # ""
         /\ \A i \in 1..Len(calls[r]) :
              <<"X-CMC_PRO_API_KEY", API_KEY>> \in calls[r][i].headers

C8_Witness == phase = "failed" /\ env = Some("") /\ API_KEY = Some("")

\* ------------------------------------------------------------------ C9

SlotState(r) == <<pc[r], req[r], calls[r], response[r], outcomes[r]>>

\* What a request sends upstream and ends in follows from its own inputs
\* and its own upstream response.
OwnInputsDecide ==
  /\ \A r1, r2 \in Slots :
       (req[r1].kind # "none" /\ req[r1] = req[r2]) =>
         /\ (calls[r1] # <<>> /\ calls[r2] # <<>>) => calls[r1] = calls[r2]
         /\ (pc[r1] = "done" /\ pc[r2] = "done" /\ response[r1] = response[r2])
              => outcomes[r1] = outcomes[r2]
  /\ \A r \in Slots :
       (IsQuotesRequest(r) /\ ReachedUpstream(r)) =>
         \A p \in calls[r][1].params :
           p[1] \in {"slug", "symbol"} => Supplied(r, p[1]) = Some(p[2])

\* C9: under any interleaving, once the module is imported no step changes
\* the credential, every step changes the state of at most one request,
\* and each request's upstream call and outcome follow from its own inputs
\* and its own upstream response.
C9_NoSharedState ==
  [][ /\ phase # "import" =>
           API_KEY' = API_KEY /\ env' = env /\ phase' = phase
      /\ \E r \in Slots : \A o \in Slots \ {r} : SlotState(o)' = SlotState(o)
      /\ OwnInputsDecide' ]_vars

C9_Witness ==
  \E r1, r2 \in Slots :
    /\ r1 # r2
    /\ req[r1] = req[r2] /\ IsQuotesRequest(r1)
    /\ pc[r1] = "done" /\ pc[r2] = "done"
    /\ response[r1] # response[r2]
    /\ outcomes[r1] # outcomes[r2]

\* ----------------------------------------------------------------- C10

\* The number of upstream calls the request in slot r is to make.
ExpectedCalls(r) ==
  IF \/ IsCoinmarketRead(r) /\ req[r].uri.path \in {"/listings", "/quotes"}
     \/ IsCall(r) /\ req[r].name \in {"get_currency_listings", "get_quotes"}
  THEN 1 ELSE 0

\* C10: a request never makes more than one upstream call nor ends in more
\* than one outcome; while it waits for the upstream it has made its one
\* call and has no outcome; when it is done it has exactly one outcome and
\* has made one call if it is a read of /listings or /quotes or a call of
\* get_currency_listings or get_quotes, and none otherwise.
C10_OneCallOneOutcome ==
  \A r \in Slots :
    /\ Len(calls[r]) <= 1
    /\ Len(outcomes[r]) <= 1
    /\ pc[r] = "idle" => calls[r] = <<>> /\ outcomes[r] = <<>>
    /\ pc[r] = "awaiting" => Len(calls[r]) = 1 /\ outcomes[r] = <<>>
    /\ pc[r] = "done" =>
         Len(outcomes[r]) = 1 /\ Len(calls[r]) = ExpectedCalls(r)

C10_Witness ==
  \E r \in Slots :
    /\ pc[r] = "done" /\ IsCoinmarketRead(r) /\ req[r].uri.path = "/quotes"
    /\ Len(calls[r]) = 1 /\ Len(outcomes[r]) = 1
    /\ response[r].fault

====
